---- MODULE Spec2Model ----
(***************************************************************************)
(* Model of the rug-pull checker agent: the contract-address parser        *)
(* (utils/ca_parser.py), the file cache (utils/cache.py) and the request   *)
(* orchestrator (src/rugpull_agent/agent.py) with its two gateways.        *)
(*                                                                         *)
(* Specifications: SpecParser (the parser on a text), SpecCache (the       *)
(* methods of CacheManager in any order), SpecGateway (analyze_token on    *)
(* one outcome of its GET), Spec (concurrent requests), SpecOne (one       *)
(* request on inputs and outcomes that make a step raise) and SpecStream   *)
(* (concurrent requests with the consumers of src/rugpull_agent/server.py  *)
(* that forward their events; SpecStreamFair adds the scheduling).          *)
(*                                                                         *)
(* Texts are sequences of one-character strings.                           *)
(***************************************************************************)
EXTENDS Integers, Sequences, FiniteSets, TLC

(***************************************************************************)
(* utils/ca_parser.py : class constants                                    *)
(***************************************************************************)
BASE58_ALPHABET ==
  << "1","2","3","4","5","6","7","8","9",
     "A","B","C","D","E","F","G","H","J","K","L","M","N","P","Q","R","S","T",
     "U","V","W","X","Y","Z",
     "a","b","c","d","e","f","g","h","i","j","k","m","n","o","p","q","r","s",
     "t","u","v","w","x","y","z" >>

MIN_LENGTH == 32

MAX_LENGTH == 44

\* `char in cls.BASE58_ALPHABET` / the regex class [BASE58_ALPHABET]
Base58Chars == { BASE58_ALPHABET[i] : i \in 1..Len(BASE58_ALPHABET) }

(***************************************************************************)
(* Python values and string primitives used by the parser                  *)
(***************************************************************************)
\* Optional[str]: None, or a string
None == [some |-> FALSE]

Some(v) == [some |-> TRUE, val |-> v]

\* characters removed by str.strip() and matched by \s
Whitespace == {" ", "\t", "\n", "\r"}

\* the character class of re.split(r'[\s,;:.!?\n\r]+', text)
SplitChars == Whitespace \cup {",", ";", ":", ".", "!", "?"}

SetMin(S) == CHOOSE x \in S : \A y \in S : x <= y

SetMax(S) == CHOOSE x \in S : \A y \in S : x >= y

\* index of the first character of s at or after i that is not in chars
\* (Len(s) + 1 when there is none)
FirstNotIn(s, i, chars) ==
  SetMin({ j \in i..(Len(s) + 1) : j = Len(s) + 1 \/ s[j] \notin chars })

\* index of the first character of s at or after i that is in chars
\* (Len(s) + 1 when there is none)
FirstIn(s, i, chars) ==
  SetMin({ j \in i..(Len(s) + 1) : j = Len(s) + 1 \/ s[j] \in chars })

\* str.strip()
strip(s) ==
  LET i == FirstNotIn(s, 1, Whitespace)
      j == SetMax({ k \in 0..Len(s) : k = 0 \/ s[k] \notin Whitespace })
  IN  IF i > j THEN << >> ELSE SubSeq(s, i, j)

\* re.split(r'[\s,;:.!?\n\r]+', s) from the word that starts at index start:
\* the word runs to the next separator character, the separator run is
\* skipped, and the rest is split in turn.  A separator run at either end of
\* s yields an empty word there, as in Python.
RECURSIVE SplitFrom(_, _)
SplitFrom(s, start) ==
  LET i == FirstIn(s, start, SplitChars)
  IN  IF i > Len(s) THEN << SubSeq(s, start, Len(s)) >>
      ELSE << SubSeq(s, start, i - 1) >>
             \o SplitFrom(s, FirstNotIn(s, i, SplitChars))

re_split(s) == SplitFrom(s, 1)

\* number of alphabet characters the greedy quantifier {MIN,MAX} consumes
\* from position i (never more than MAX_LENGTH)
RunLen(s, i) ==
  SetMin({ n \in 0..MAX_LENGTH :
             n = MAX_LENGTH \/ i + n > Len(s) \/ s[i + n] \notin Base58Chars })

\* re.findall('[BASE58_ALPHABET]{32,44}', s) from index i: the leftmost
\* position where at least MIN_LENGTH alphabet characters follow gives a
\* match, as long as the quantifier allows; the scan goes on after the match
RECURSIVE FindAllFrom(_, _)
FindAllFrom(s, i) ==
  LET at == { j \in i..Len(s) : RunLen(s, j) >= MIN_LENGTH }
  IN  IF at = {} THEN << >>
      ELSE LET j == SetMin(at)
               n == RunLen(s, j)
           IN  << SubSeq(s, j, j + n - 1) >> \o FindAllFrom(s, j + n)

re_findall(s) == FindAllFrom(s, 1)

(***************************************************************************)
(* CAParser                                                                *)
(***************************************************************************)
\* a slip: the upper length bound taken as exclusive
is_valid_StrictMax(address) ==
  IF address = << >> THEN FALSE
  ELSE IF ~(MIN_LENGTH <= Len(address) /\ Len(address) < MAX_LENGTH) THEN FALSE
  ELSE \A i \in 1..Len(address) : address[i] \in Base58Chars

\* a slip: `return True` inside the loop, so only the first character counts
is_valid_FirstCharOnly(address) ==
  IF address = << >> THEN FALSE
  ELSE IF ~(MIN_LENGTH <= Len(address) /\ Len(address) <= MAX_LENGTH) THEN FALSE
  ELSE address[1] \in Base58Chars

\* a slip: the alphabet loop left out
is_valid_NoAlphabet(address) ==
  IF address = << >> THEN FALSE
  ELSE MIN_LENGTH <= Len(address) /\ Len(address) <= MAX_LENGTH

\* CAParser.is_valid_solana_address: non-empty, length in [MIN, MAX], every
\* character in the alphabet.  (The code has no distinct-character test.)
is_valid_solana_address(address) ==
  IF address = << >> THEN FALSE
  ELSE IF ~(MIN_LENGTH <= Len(address) /\ Len(address) <= MAX_LENGTH) THEN FALSE
  ELSE \A i \in 1..Len(address) : address[i] \in Base58Chars

\* the loop `for word in words` of extract_contract_address: indices of the
\* words that pass the quick length check and the validity check
ValidWordIdx(words) ==
  { i \in 1..Len(words) :
      LET word == strip(words[i])
      IN  /\ MIN_LENGTH <= Len(word)
          /\ Len(word) <= MAX_LENGTH
          /\ is_valid_solana_address(word) }

\* the loop `for match in matches`
ValidMatchIdx(matches) ==
  { i \in 1..Len(matches) : is_valid_solana_address(matches[i]) }

\* a slip: `return text` where `return word` is meant
extract_ReturnsText(text) ==
  IF text = << >> THEN None
  ELSE LET t     == strip(text)
           words == re_split(t)
           wi    == ValidWordIdx(words)
       IN  IF wi # {} THEN Some(t)
           ELSE LET matches == re_findall(t)
                    mi      == ValidMatchIdx(matches)
                IN  IF mi # {} THEN Some(matches[SetMin(mi)]) ELSE None

\* CAParser.extract_contract_address
extract_contract_address(text) ==
  IF text = << >> THEN None
  ELSE LET t     == strip(text)
           words == re_split(t)
           wi    == ValidWordIdx(words)
       IN  IF wi # {} THEN Some(strip(words[SetMin(wi)]))
           ELSE LET matches == re_findall(t)
                    mi      == ValidMatchIdx(matches)
                IN  IF mi # {} THEN Some(matches[SetMin(mi)]) ELSE None

\* CAParser.has_contract_address
has_contract_address(text) == extract_contract_address(text) # None

\* the loop `for word in words` of extract_all_addresses, from word i on:
\* every stripped word that is valid is appended, with no membership test
RECURSIVE AllValidWords(_, _)
AllValidWords(words, i) ==
  IF i > Len(words) THEN << >>
  ELSE LET word == strip(words[i])
       IN  (IF is_valid_solana_address(word) THEN << word >> ELSE << >>)
             \o AllValidWords(words, i + 1)

\* the loop `for match in matches` of extract_all_addresses, from match i
\* on: a valid match is appended unless it is already in the list
RECURSIVE AppendNewMatches(_, _, _)
AppendNewMatches(addresses, matches, i) ==
  IF i > Len(matches) THEN addresses
  ELSE LET match == matches[i]
           seen  == \E k \in 1..Len(addresses) : addresses[k] = match
       IN  AppendNewMatches(
             IF is_valid_solana_address(match) /\ ~seen
             THEN Append(addresses, match) ELSE addresses,
             matches, i + 1)

\* a slip: the pattern matching after the word loop left out
extract_all_WordsOnly(text) ==
  IF text = << >> THEN << >>
  ELSE AllValidWords(re_split(text), 1)

\* CAParser.extract_all_addresses: a list, in order of discovery (the text
\* is split as it is, without a strip of the whole text)
extract_all_addresses(text) ==
  IF text = << >> THEN << >>
  ELSE AppendNewMatches(AllValidWords(re_split(text), 1), re_findall(text), 1)

(***************************************************************************)
(* Input texts of the parser                                               *)
(***************************************************************************)
\* how far below and above MIN_LENGTH and MAX_LENGTH the run lengths go
Slack == 1

\* n alphabet characters cycling through the first k symbols: k distinct
\* characters when n >= k
Cyc(k, n) == [i \in 1..n |-> BASE58_ALPHABET[((i - 1) % k) + 1]]

Rep(c, n) == [i \in 1..n |-> c]

RunLengths ==
  ((MIN_LENGTH - Slack)..(MIN_LENGTH + Slack))
    \cup ((MAX_LENGTH - Slack)..(MAX_LENGTH + Slack)) \cup {40}

Diversities == {1, 9, 10, 58}

\* alphanumeric characters that are not in the alphabet
NonBase58 == {"0", "O", "I", "l"}

Cores ==
  { Cyc(k, n) : k \in Diversities, n \in RunLengths }
    \cup { Rep(c, 40) : c \in NonBase58 }
    \cup { Cyc(12, 20) \o << c >> \o Cyc(12, 20) : c \in {"0", "-"} }
    \cup { Cyc(12, 2 * MAX_LENGTH + Slack) }
    \cup { << >>, << "h","e","l","l","o"," ","w","o","r","l","d" >> }

Prefixes ==
  { << >>, << "C","A",":"," " >>, << " " >>, << "(" >>, << "x" >>,
    << "h","i",","," " >>, Rep("1", 40) \o << " " >> }

Suffixes ==
  { << >>, << "?" >>, << " " >>, << ")" >>, << ".","\n" >>,
    << " ","o","k" >> }

Texts == { p \o c \o s : p \in Prefixes, c \in Cores, s \in Suffixes }

\* two addresses that differ, of 58 and of 12 distinct characters
PairAddresses == { Cyc(58, MAX_LENGTH), Cyc(12, 40) }

\* what stands between two addresses of a text
PairSeparators == { << " " >>, << ",", " " >>, << "\n" >>, << ")", "(" >> }

\* texts with two addresses, in either order or the same one twice, followed
\* by nothing or by a repetition of one of the two
PairTexts ==
  { pre \o x \o sep \o y \o (IF z = << >> THEN << >> ELSE sep \o z) :
      pre \in { << >>, << "(" >> },
      x \in PairAddresses, y \in PairAddresses,
      sep \in PairSeparators,
      z \in PairAddresses \cup { << >> } }

(***************************************************************************)
(* utils/cache.py : CacheManager.  Storage is one file per key; a file has *)
(* a modification time and a content that is a JSON document or not.       *)
(***************************************************************************)
\* the scaled TTL, in clock ticks
TtlTicks == 1

\* CacheManager.__init__: self.ttl_seconds
ttl_seconds == TtlTicks

\* the content of a dict the orchestrator caches: the three entries of the
\* cache_data dict of agent.py
NoData == [analysis_data |-> "", ai_response |-> "", contract_address |-> << >>]

\* a Python value: its type and what it holds
PyValue(type, items) == [py |-> type, items |-> items]

\* a JSON text: an object or an array, and what it holds
JsonText(type, items) == [type |-> type, items |-> items]

\* json.dumps(value, indent=2): a dict is written as an object, its keys as
\* strings whatever they were; a list and a tuple are both written as an
\* array; a value of another type (a set, say) raises TypeError
json_dumps(value) ==
  CASE value.py \in {"dict", "dict_int_keys"} ->
         [raised |-> "", text |-> JsonText("object", value.items)]
    [] value.py \in {"list", "tuple"} ->
         [raised |-> "", text |-> JsonText("array", value.items)]
    [] OTHER ->
         [raised |-> "TypeError", text |-> JsonText("", NoData)]

\* a slip: every text read as a dict
json_loads_AsDict(text) == PyValue("dict", text.items)

\* json.loads(text): an object is read as a dict with string keys, an array
\* as a list
json_loads(text) ==
  IF text.type = "object" THEN PyValue("dict", text.items)
  ELSE PyValue("list", text.items)

\* no file at the cache path
NoFile ==
  [present |-> FALSE, mtime |-> 0, json |-> FALSE, data |-> JsonText("", NoData)]

\* a file whose content cannot be read as text or that json.loads rejects
CorruptFile(t) ==
  [present |-> TRUE, mtime |-> t, json |-> FALSE, data |-> JsonText("", NoData)]

\* a file holding a JSON text
JsonFile(t, text) == [present |-> TRUE, mtime |-> t, json |-> TRUE, data |-> text]

\* CacheManager._get_cache_path: the file of a key (the SHA-256 name is taken
\* to be one file per key)
_get_cache_path(key) == key

\* what get hands back: the storage afterwards, the value returned, the
\* exception that leaves the call ("" when none does), and the line it
\* logged: "expired" (line 55), "hit" (line 61, after the content was read
\* and parsed), "read error" (line 65) or none
GetResult(files, value, raised, log) ==
  [files |-> files, value |-> value, raised |-> raised, log |-> log]

\* a slip: `>=` where `>` is meant, so an entry aged exactly TTL is dropped
get_ExpiresAtTtl(files, key, now_t) ==
  LET cache_file == _get_cache_path(key)
      f == files[cache_file]
  IN  IF ~f.present THEN GetResult(files, None, "", "")
      ELSE IF now_t - f.mtime >= ttl_seconds
           THEN GetResult([files EXCEPT ![cache_file] = NoFile], None, "",
                          "expired")
           ELSE IF ~f.json THEN GetResult(files, None, "", "read error")
                ELSE GetResult(files, Some(json_loads(f.data)), "", "hit")

\* a slip: the age test left out, so an old entry is still returned
get_NoExpiry(files, key, now_t) ==
  LET cache_file == _get_cache_path(key)
      f == files[cache_file]
  IN  IF ~f.present THEN GetResult(files, None, "", "")
      ELSE IF ~f.json THEN GetResult(files, None, "", "read error")
           ELSE GetResult(files, Some(json_loads(f.data)), "", "hit")

\* a slip: the except clause unlinks the file it could not read
get_UnlinkOnError(files, key, now_t) ==
  LET cache_file == _get_cache_path(key)
      f == files[cache_file]
  IN  IF ~f.present THEN GetResult(files, None, "", "")
      ELSE IF now_t - f.mtime > ttl_seconds
           THEN GetResult([files EXCEPT ![cache_file] = NoFile], None, "",
                          "expired")
           ELSE IF ~f.json
                THEN GetResult([files EXCEPT ![cache_file] = NoFile], None, "",
                               "read error")
                ELSE GetResult(files, Some(json_loads(f.data)), "", "hit")

\* a slip: a hit rewrites the file, so every read renews the entry
get_Touch(files, key, now_t) ==
  LET cache_file == _get_cache_path(key)
      f == files[cache_file]
  IN  IF ~f.present THEN GetResult(files, None, "", "")
      ELSE IF now_t - f.mtime > ttl_seconds
           THEN GetResult([files EXCEPT ![cache_file] = NoFile], None, "",
                          "expired")
           ELSE IF ~f.json THEN GetResult(files, None, "", "read error")
                ELSE GetResult([files EXCEPT ![cache_file] =
                                  JsonFile(now_t, f.data)],
                               Some(json_loads(f.data)), "", "hit")

\* a slip: the content is read and parsed before the age is looked at
get_ParseFirst(files, key, now_t) ==
  LET cache_file == _get_cache_path(key)
      f == files[cache_file]
  IN  IF ~f.present THEN GetResult(files, None, "", "")
      ELSE IF ~f.json THEN GetResult(files, None, "", "read error")
           ELSE IF now_t - f.mtime > ttl_seconds
                THEN GetResult([files EXCEPT ![cache_file] = NoFile], None, "",
                               "expired")
                ELSE GetResult(files, Some(json_loads(f.data)), "", "hit")

\* a slip: no try/except around the read, so the decoding error leaves get
get_NoExcept(files, key, now_t) ==
  LET cache_file == _get_cache_path(key)
      f == files[cache_file]
  IN  IF ~f.present THEN GetResult(files, None, "", "")
      ELSE IF now_t - f.mtime > ttl_seconds
           THEN GetResult([files EXCEPT ![cache_file] = NoFile], None, "",
                          "expired")
           ELSE IF ~f.json THEN GetResult(files, None, "JSONDecodeError", "")
                ELSE GetResult(files, Some(json_loads(f.data)), "", "hit")

\* CacheManager.get: no file gives None; a file older than the TTL is
\* unlinked and gives None, its content unread; a content that cannot be
\* read or parsed gives None through the except clause; else the parsed value
get(files, key, now_t) ==
  LET cache_file == _get_cache_path(key)
      f == files[cache_file]
  IN  IF ~f.present THEN GetResult(files, None, "", "")
      ELSE IF now_t - f.mtime > ttl_seconds
           THEN GetResult([files EXCEPT ![cache_file] = NoFile], None, "",
                          "expired")
           ELSE IF ~f.json THEN GetResult(files, None, "", "read error")
                ELSE GetResult(files, Some(json_loads(f.data)), "", "hit")

\* what set hands back: the storage afterwards, the boolean returned and the
\* exception that leaves the call ("" when none does)
SetResult(files, ok, raised) == [files |-> files, ok |-> ok, raised |-> raised]

\* how mkdir and write_text of set end: the text is written; an OSError
\* before the file is opened (refused), which leaves the file as it was; or
\* an OSError after write_text has opened and truncated the file (torn),
\* which leaves a file that holds no JSON text
WriteOutcomes == {"written", "refused", "torn"}

\* a slip: no try/except around the write, so its exception leaves set
set_NoExcept(files, key, value, now_t, write) ==
  LET cache_file == _get_cache_path(key)
      dumped     == json_dumps(value)
  IN  CASE dumped.raised # "" -> SetResult(files, FALSE, dumped.raised)
        [] dumped.raised = "" /\ write = "refused" ->
             SetResult(files, FALSE, "OSError")
        [] dumped.raised = "" /\ write = "torn" ->
             SetResult([files EXCEPT ![cache_file] = CorruptFile(now_t)],
                       FALSE, "OSError")
        [] OTHER ->
             SetResult([files EXCEPT ![cache_file] =
                          JsonFile(now_t, dumped.text)], TRUE, "")

\* a slip: the new text is written over the old one without truncating the
\* file, so the kind of the old text stays with the new content
set_PartialUpdate(files, key, value, now_t, write) ==
  LET cache_file == _get_cache_path(key)
      dumped     == json_dumps(value)
      old        == files[cache_file]
  IN  CASE dumped.raised # "" \/ write = "refused" ->
             SetResult(files, FALSE, "")
        [] dumped.raised = "" /\ write = "torn" ->
             SetResult([files EXCEPT ![cache_file] = CorruptFile(now_t)],
                       FALSE, "")
        [] OTHER ->
             SetResult([files EXCEPT ![cache_file] =
                          JsonFile(now_t,
                                   IF old.present /\ old.json
                                   THEN JsonText(old.data.type, dumped.text.items)
                                   ELSE dumped.text)], TRUE, "")

\* a slip: the entry that is there is updated, not replaced: its advisory
\* text stays
set_KeepAdvice(files, key, value, now_t, write) ==
  LET cache_file == _get_cache_path(key)
      dumped     == json_dumps(value)
      old        == files[cache_file]
  IN  CASE dumped.raised # "" \/ write = "refused" ->
             SetResult(files, FALSE, "")
        [] dumped.raised = "" /\ write = "torn" ->
             SetResult([files EXCEPT ![cache_file] = CorruptFile(now_t)],
                       FALSE, "")
        [] OTHER ->
             SetResult([files EXCEPT ![cache_file] =
                          JsonFile(now_t,
                                   IF old.present /\ old.json
                                   THEN JsonText(dumped.text.type,
                                          [dumped.text.items EXCEPT
                                             !.ai_response =
                                                old.data.items.ai_response])
                                   ELSE dumped.text)], TRUE, "")

\* CacheManager.set: the value is serialized and written, and True is
\* returned; an exception of json.dumps, of mkdir or of write_text is
\* caught and False is returned
set(files, key, value, now_t, write) ==
  LET cache_file == _get_cache_path(key)
      dumped     == json_dumps(value)
  IN  CASE dumped.raised # "" \/ write = "refused" ->
             SetResult(files, FALSE, "")
        [] dumped.raised = "" /\ write = "torn" ->
             SetResult([files EXCEPT ![cache_file] = CorruptFile(now_t)],
                       FALSE, "")
        [] OTHER ->
             SetResult([files EXCEPT ![cache_file] =
                          JsonFile(now_t, dumped.text)], TRUE, "")

\* what delete hands back: the storage afterwards and the boolean returned
DeleteResult(files, ok) == [files |-> files, ok |-> ok]

\* a slip: True is returned whether or not there was a file
delete_AlwaysTrue(files, key) ==
  LET cache_file == _get_cache_path(key)
  IN  DeleteResult([files EXCEPT ![cache_file] = NoFile], TRUE)

\* CacheManager.delete
delete(files, key) ==
  LET cache_file == _get_cache_path(key)
  IN  IF files[cache_file].present
      THEN DeleteResult([files EXCEPT ![cache_file] = NoFile], TRUE)
      ELSE DeleteResult(files, FALSE)

\* CacheManager.clear_all: every *.json file of the directory is unlinked
\* and counted
clear_all(files) ==
  [files |-> [cache_file \in DOMAIN files |-> NoFile],
   count |-> Cardinality({ cache_file \in DOMAIN files :
                             files[cache_file].present })]

(***************************************************************************)
(* src/rugpull_agent/solsniffer_service.py : SolSnifferService             *)
(***************************************************************************)
\* what the outbound GET can do: a status (with, for 200, a body that is a
\* JSON object, a JSON array or no JSON), a connection error or a timeout
ScanTransport ==
  {"200_json", "200_garbage", "404", "429", "500", "conn_error", "timeout"}

\* a returned dict: error is "" when the dict has no "error" key
ScanDict(e, m, rep) ==
  [type |-> "dict", error |-> e, message |-> m, report |-> rep]

\* a returned body that is a JSON array
ScanList(rep) == [type |-> "list", error |-> "", message |-> "", report |-> rep]

\* SolSnifferService.analyze_token: the value returned, or the exception
\* that leaves the call.  The clause `except aiohttp.ClientTimeout` names a
\* class that is no exception, so an exception that is not a
\* ClientConnectionError makes Python raise TypeError while matching it.
solsniffer_analyze_token(outcome) ==
  CASE outcome = "200_json" ->
         [raised |-> "", value |-> ScanDict("", "", "report")]
    [] outcome = "200_list" ->
         [raised |-> "", value |-> ScanList("report")]
    [] outcome = "200_garbage" ->
         [raised |-> "",
          value |-> ScanDict("Parse error", "Failed to parse API response", "")]
    [] outcome = "404" ->
         [raised |-> "",
          value |-> ScanDict("Token not found",
                             "This contract address was not found", "")]
    [] outcome = "429" ->
         [raised |-> "",
          value |-> ScanDict("Rate limit", "API rate limit exceeded", "")]
    [] outcome = "conn_error" ->
         [raised |-> "",
          value |-> ScanDict("Connection error",
                             "Could not connect to SolSniffer API", "")]
    [] outcome = "timeout" ->
         [raised |-> "TypeError", value |-> ScanDict("", "", "")]
    [] OTHER ->
         [raised |-> "",
          value |-> ScanDict("API error",
                             "The SolSniffer API returned an error (Status: "
                               \o outcome \o ")", "")]

(***************************************************************************)
(* src/rugpull_agent/llm_service.py : LLMService                           *)
(***************************************************************************)
\* what the outbound POST can do
LlmTransport == {"200", "non200", "exception"}

\* the text the model service generates for request r: each call gets its
\* own text
LlmText(r) == "advice " \o ToString(r)

LlmStatusError == "Unable to generate AI analysis"

LlmException == "Failed to generate AI analysis"

\* LLMService.analyze_token: always a string
llm_analyze_token(outcome, content) ==
  IF outcome = "200" THEN content
  ELSE IF outcome = "non200" THEN LlmStatusError
  ELSE LlmException

(***************************************************************************)
(* src/rugpull_agent/agent.py : RugPullAgent                               *)
(***************************************************************************)
GREETING_PATTERNS ==
  << << "w","h","o"," ","a","r","e"," ","y","o","u" >>,
     << "w","h","a","t"," ","c","a","n"," ","y","o","u"," ","d","o" >>,
     << "w","h","a","t"," ","a","r","e"," ","y","o","u" >>,
     << "h","e","l","l","o" >>,
     << "h","i"," ","t","h","e","r","e" >>,
     << "h","e","y"," ","t","h","e","r","e" >>,
     << "h","e","l","p"," ","m","e" >>,
     << "a","b","o","u","t"," ","y","o","u" >> >>

UPPERCASE ==
  << "A","B","C","D","E","F","G","H","I","J","K","L","M","N","O","P","Q","R",
     "S","T","U","V","W","X","Y","Z" >>

LOWERCASE ==
  << "a","b","c","d","e","f","g","h","i","j","k","l","m","n","o","p","q","r",
     "s","t","u","v","w","x","y","z" >>

\* str.lower()
lower(s) ==
  [i \in 1..Len(s) |->
     IF \E k \in 1..Len(UPPERCASE) : UPPERCASE[k] = s[i]
     THEN LOWERCASE[CHOOSE k \in 1..Len(UPPERCASE) : UPPERCASE[k] = s[i]]
     ELSE s[i]]

\* `pattern in prompt_lower`
Contains(s, pattern) ==
  \E i \in 1..(Len(s) - Len(pattern) + 1) :
     SubSeq(s, i, i + Len(pattern) - 1) = pattern

\* any(len(word) >= 32 for word in prompt.split())
has_long_word(prompt) ==
  \E i \in 1..(Len(prompt) - 31) :
     \A k \in 0..31 : prompt[i + k] \notin Whitespace

\* a slip: the long-word guard left out
_is_greeting_NoGuard(prompt) ==
  \E k \in 1..Len(GREETING_PATTERNS) :
     Contains(lower(prompt), GREETING_PATTERNS[k])

\* RugPullAgent._is_greeting
_is_greeting(prompt) ==
  IF has_long_word(prompt) THEN FALSE
  ELSE \E k \in 1..Len(GREETING_PATTERNS) :
          Contains(lower(prompt), GREETING_PATTERNS[k])

\* events pushed through the response handler
Event(type, cached, text) == [type |-> type, cached |-> cached, text |-> text]

StatusAnalyzing == Event("STATUS", FALSE, "Analyzing Token")

StatusProcessing == Event("STATUS", FALSE, "AI Processing")

DoneEvent == Event("DONE", FALSE, "")

\* the state of one call of assist
NewRequest(prompt) ==
  [ pc               |-> "start",
    prompt           |-> prompt,
    contract_address |-> None,
    events           |-> << >>,
    lookup           |-> "none",
    scan             |-> "none",
    llm              |-> "none",
    stored           |-> "none",
    analysis_data    |-> ScanDict("", "", ""),
    ai_response      |-> "",
    scan_calls       |-> 0,
    llm_calls        |-> 0,
    cache_sets       |-> 0,
    caught           |-> "" ]

\* a slip: no except clause, so the exception leaves assist with nothing
\* emitted
on_exception_Escapes(q, e) == [q EXCEPT !.caught = e, !.pc = "raised"]

\* the except clauses of assist (lines 102-108) and of
\* _process_token_analysis (lines 182-188): the exception is caught, one
\* error block carries its text, and the response is completed
on_exception(q, e) ==
  [q EXCEPT !.caught = e,
            !.events = @ \o << Event("ERROR", FALSE, e), DoneEvent >>,
            !.pc = "returned"]

\* assist, line 82: the address of the stripped prompt
assist_address(q) == extract_contract_address(strip(q.prompt))

\* a slip: the `return` after the greeting left out, so the chat follows
assist_no_address_GreetingFallsThrough(q) ==
  IF _is_greeting(strip(q.prompt))
  THEN [q EXCEPT !.events = @ \o << Event("GREETING", FALSE, "greeting"),
                                    DoneEvent >>,
                 !.pc = "chat"]
  ELSE [q EXCEPT !.pc = "chat"]

\* assist, lines 94-100: no address was found; greet, or go on to the chat
assist_no_address(q) ==
  IF _is_greeting(strip(q.prompt))
  THEN [q EXCEPT !.events = @ \o << Event("GREETING", FALSE, "greeting"),
                                    DoneEvent >>,
                 !.pc = "returned"]
  ELSE [q EXCEPT !.pc = "chat"]

\* cache_key = f"token_analysis_{contract_address}"
cache_key(contract_address) == << "token_analysis_" >> \o contract_address

\* a slip: the cached reply takes the wrong entry of the cached dict
after_cache_lookup_WrongEntry(q, enabled, cached_result) ==
  IF enabled /\ cached_result.some
  THEN [q EXCEPT !.events = @ \o << Event("AI_ANALYSIS", TRUE,
                                          cached_result.val.items.analysis_data),
                                    DoneEvent >>,
                 !.lookup = "hit",
                 !.pc = "returned"]
  ELSE [q EXCEPT !.events = @ \o << StatusAnalyzing >>,
                 !.lookup = IF enabled THEN "miss" ELSE "disabled",
                 !.pc = "scan"]

\* a slip: the `return` after the cached reply left out
after_cache_lookup_NoReturn(q, enabled, cached_result) ==
  IF enabled /\ cached_result.some
  THEN [q EXCEPT !.events = @ \o << Event("AI_ANALYSIS", TRUE,
                                          cached_result.val.items.ai_response),
                                    DoneEvent, StatusAnalyzing >>,
                 !.lookup = "hit",
                 !.pc = "scan"]
  ELSE [q EXCEPT !.events = @ \o << StatusAnalyzing >>,
                 !.lookup = IF enabled THEN "miss" ELSE "disabled",
                 !.pc = "scan"]

\* _process_token_analysis, lines 119-137: reply from the cache and return
\* (a cached value that is no dict has no `get`: AttributeError, caught at
\* line 182), or announce the analysis and go on to the scanning service
after_cache_lookup(q, enabled, cached_result) ==
  IF enabled /\ cached_result.some
  THEN IF cached_result.val.py # "dict"
       THEN on_exception([q EXCEPT !.lookup = "not a dict"], "AttributeError")
       ELSE [q EXCEPT !.events = @ \o << Event("AI_ANALYSIS", TRUE,
                                          cached_result.val.items.ai_response),
                                         DoneEvent >>,
                      !.lookup = "hit",
                      !.pc = "returned"]
  ELSE [q EXCEPT !.events = @ \o << StatusAnalyzing >>,
                 !.lookup = IF enabled THEN "miss" ELSE "disabled",
                 !.pc = "scan"]

\* a slip: the error branch does not return, so the model is still called
after_scan_ErrorFallsThrough(q, outcome) ==
  LET r == solsniffer_analyze_token(outcome)
      c == [q EXCEPT !.scan = outcome, !.scan_calls = @ + 1]
  IN  IF r.raised # ""
      THEN [c EXCEPT !.events = @ \o << Event("ERROR", FALSE, r.raised),
                                        DoneEvent >>,
                     !.pc = "returned"]
      ELSE IF r.value.error # ""
           THEN [c EXCEPT !.analysis_data = r.value,
                          !.events = @ \o << Event("ERROR", FALSE,
                                                   r.value.message) >>,
                          !.pc = "llm"]
           ELSE [c EXCEPT !.analysis_data = r.value,
                          !.events = @ \o << StatusProcessing >>,
                          !.pc = "llm"]

\* a slip: the second status block left out
after_scan_NoStatus(q, outcome) ==
  LET r == solsniffer_analyze_token(outcome)
      c == [q EXCEPT !.scan = outcome, !.scan_calls = @ + 1]
  IN  IF r.raised # ""
      THEN [c EXCEPT !.events = @ \o << Event("ERROR", FALSE, r.raised),
                                        DoneEvent >>,
                     !.pc = "returned"]
      ELSE IF r.value.error # ""
           THEN [c EXCEPT !.analysis_data = r.value,
                          !.events = @ \o << Event("ERROR", FALSE,
                                                   r.value.message),
                                            DoneEvent >>,
                          !.pc = "returned"]
           ELSE [c EXCEPT !.analysis_data = r.value,
                          !.pc = "llm"]

\* a slip: a failed scan is tried again, up to three calls
after_scan_Retries(q, outcome) ==
  LET r == solsniffer_analyze_token(outcome)
      c == [q EXCEPT !.scan = outcome, !.scan_calls = @ + 1]
  IN  IF r.raised # ""
      THEN on_exception(c, r.raised)
      ELSE IF r.value.error # ""
           THEN IF c.scan_calls < 3
                THEN c
                ELSE [c EXCEPT !.analysis_data = r.value,
                               !.events = @ \o << Event("ERROR", FALSE,
                                                        r.value.message),
                                                 DoneEvent >>,
                               !.pc = "returned"]
           ELSE [c EXCEPT !.analysis_data = r.value,
                          !.events = @ \o << StatusProcessing >>,
                          !.pc = "llm"]

\* _process_token_analysis, lines 139-157 and 182-188: the scanning call
\* returned (or raised): report the error and return, or announce the
\* model step.  A body that is no dict passes the test of line 141 and
\* fails at `analysis_data.keys()`, line 152.
after_scan(q, outcome) ==
  LET r == solsniffer_analyze_token(outcome)
      c == [q EXCEPT !.scan = outcome, !.scan_calls = @ + 1]
  IN  IF r.raised # ""
      THEN on_exception(c, r.raised)
      ELSE IF r.value.error # ""
           THEN [c EXCEPT !.analysis_data = r.value,
                          !.events = @ \o << Event("ERROR", FALSE,
                                                   r.value.message),
                                            DoneEvent >>,
                          !.pc = "returned"]
           ELSE IF r.value.type # "dict"
                THEN on_exception([c EXCEPT !.analysis_data = r.value],
                                  "AttributeError")
                ELSE [c EXCEPT !.analysis_data = r.value,
                               !.events = @ \o << StatusProcessing >>,
                               !.pc = "llm"]

\* _process_token_analysis, lines 159-168: the model call returned its
\* string, which is emitted as the analysis whatever it is
after_llm(q, outcome, content) ==
  LET ai == llm_analyze_token(outcome, content)
  IN  [q EXCEPT !.llm = outcome,
                !.llm_calls = @ + 1,
                !.ai_response = ai,
                !.events = @ \o << Event("AI_ANALYSIS", FALSE, ai) >>,
                !.pc = "store"]

\* the dict built at lines 171-175
cache_data(q) ==
  PyValue("dict", [analysis_data    |-> q.analysis_data.report,
                   ai_response      |-> q.ai_response,
                   contract_address |-> q.contract_address.val])

\* _process_token_analysis, lines 170-180: after the store (if any),
\* complete.  s is what set handed back; the boolean it returned is not
\* looked at, and an exception leaving it would be caught at line 182.
after_store(q, enabled, s) ==
  IF enabled /\ s.raised # ""
  THEN on_exception([q EXCEPT !.stored = "raised", !.cache_sets = @ + 1],
                    s.raised)
  ELSE [q EXCEPT !.stored = IF ~enabled THEN "disabled"
                            ELSE IF s.ok THEN "ok" ELSE "failed",
                 !.cache_sets = IF enabled THEN @ + 1 ELSE @,
                 !.events = @ \o << DoneEvent >>,
                 !.pc = "returned"]

\* a slip: no fallback block in the except clause
after_chat_NoFallback(q, outcome, content) ==
  LET text == IF outcome = "200" THEN content ELSE "fallback_status"
  IN  [q EXCEPT !.llm = outcome,
                !.llm_calls = @ + 1,
                !.events = @ \o (IF outcome = "exception" THEN << >>
                                 ELSE << Event("CHAT_RESPONSE", FALSE, text) >>)
                             \o << DoneEvent >>,
                !.pc = "returned"]

\* _handle_normal_chat: one content block, then complete
after_chat(q, outcome, content) ==
  LET text == IF outcome = "200" THEN content
              ELSE IF outcome = "non200" THEN "fallback_status"
              ELSE "fallback_exception"
  IN  [q EXCEPT !.llm = outcome,
                !.llm_calls = @ + 1,
                !.events = @ \o << Event("CHAT_RESPONSE", FALSE, text),
                                  DoneEvent >>,
                !.pc = "returned"]

(***************************************************************************)
(* src/rugpull_agent/server.py : the response queue of a request           *)
(***************************************************************************)
\* a slip: one queue for all the requests instead of one made per request
queue_put_Shared(queues, r, events) == [queues EXCEPT ![1] = @ \o events]

\* the hook of request r (DefaultHook(response_queue) given to the response
\* handler of the request): the events a step of the request emits are put
\* on the queue made for the request, in the order of their emission
queue_put(queues, r, events) == [queues EXCEPT ![r] = @ \o events]

\* a slip: the event put last is taken first
queue_get_Last(q) == [event |-> q[Len(q)], rest |-> SubSeq(q, 1, Len(q) - 1)]

\* response_queue.get() on a queue that is not empty: the event put first
\* and not yet taken
queue_get(q) == [event |-> Head(q), rest |-> Tail(q)]

(***************************************************************************)
(* Requests the orchestrator is run on                                     *)
(***************************************************************************)
\* number of concurrent requests
MaxReqs == 2

Reqs == 1..MaxReqs

Addr1 == Cyc(58, MAX_LENGTH)

Prompts ==
  { Addr1,
    << "H","e","l","l","o" >>,
    << "r","u","g","?" >> }

\* a prompt that is no string: the Query was built without validation
NonePrompt == << "None" >>

\* every cache key a request can use
CacheKeys == { << "token_analysis_" >> \o Addr1 }

\* the clock runs this far
MaxTime == ttl_seconds + 1

(***************************************************************************)
(* State                                                                   *)
(***************************************************************************)
VARIABLES
  p_text,        \* the argument of a call of the parser
  p_pc,          \* "call" before extract_contract_address ran, "done" after
  p_result,      \* what extract_contract_address returned
  p_all_pc,      \* "call" before extract_all_addresses ran, "done" after
  p_all,         \* what extract_all_addresses returned
  p_has_pc,      \* "call" before has_contract_address ran, "done" after
  p_has,         \* what has_contract_address returned
  req,           \* req[r]: the state of request r's call of assist
  files,         \* files[key]: the cache file of the key
  now,           \* time.time()
  cache_enabled, \* SolSnifferConfig.ENABLE_CACHE: cache_manager is not None
  c_last,        \* the last call of a CacheManager method and what it returned
  c_written,     \* c_written[key]: the value of the last successful set of
                 \* the key, if no delete, clear_all or torn write came
                 \* after it
  c_over,        \* c_over[key]: that set replaced an entry holding another
                 \* JSON text
  g_outcome,     \* what the outbound GET of a call of analyze_token does
  g_pc,          \* "call" before analyze_token ran, "done" after
  g_result,      \* what analyze_token returned or raised
  queue,         \* queue[r]: response_queue of request r, the events put and
                 \* not yet taken
  sent,          \* sent[r]: the events forwarded to the client of request r
  s_pc           \* s_pc[r]: "reading" while the consumer of request r is in
                 \* its loop, "stopped" after its break

pvars == << p_text, p_pc, p_result, p_all_pc, p_all, p_has_pc, p_has >>

avars == << req, files, now, cache_enabled >>

cvars == << c_last, c_written, c_over >>

gvars == << g_outcome, g_pc, g_result >>

svars == << queue, sent, s_pc >>

vars ==
  << p_text, p_pc, p_result, p_all_pc, p_all, p_has_pc, p_has, req, files,
     now, cache_enabled,
     c_last, c_written, c_over, g_outcome, g_pc, g_result, queue, sent,
     s_pc >>

(***************************************************************************)
(* The parts of the state a specification leaves alone                     *)
(***************************************************************************)
\* the keys and the values the methods of CacheManager are called with
ApiKeys == { << "k", "1" >>, << "k", "2" >> }

ApiItems ==
  [analysis_data |-> "report", ai_response |-> "advice",
   contract_address |-> << "k" >>]

ApiValues ==
  { PyValue(type, ApiItems) :
      type \in {"dict", "list", "tuple", "dict_int_keys", "set"} }

\* a call of a method of CacheManager: the method, its arguments, and the
\* value, boolean or count it returned or the exception that left it
Call(op, key, arg, value, ok, count, raised, log) ==
  [op |-> op, key |-> key, arg |-> arg, value |-> value, ok |-> ok,
   count |-> count, raised |-> raised, log |-> log]

NoCall == Call("none", << >>, None, None, FALSE, 0, "", "")

\* __stream_agent_output up to its loop: an empty queue per request and a
\* consumer about to read it
StreamIdle ==
  /\ queue = [r \in Reqs |-> << >>]
  /\ sent = [r \in Reqs |-> << >>]
  /\ s_pc = [r \in Reqs |-> "reading"]

ParserIdle ==
  /\ p_text = << >>
  /\ p_pc = "done"
  /\ p_result = None
  /\ p_all_pc = "done"
  /\ p_all = << >>
  /\ p_has_pc = "done"
  /\ p_has = FALSE

CacheApiIdle ==
  /\ c_last = NoCall
  /\ c_written = [k \in ApiKeys |-> None]
  /\ c_over = [k \in ApiKeys |-> FALSE]

GatewayIdle ==
  /\ g_outcome = "none"
  /\ g_pc = "done"
  /\ g_result = [raised |-> "", value |-> ScanDict("", "", "")]

(***************************************************************************)
(* The parser called on a text                                             *)
(***************************************************************************)
AgentIdle ==
  /\ req = [r \in Reqs |-> NewRequest(<< >>)]
  /\ files = [k \in CacheKeys |-> NoFile]
  /\ now = 0
  /\ cache_enabled = TRUE
  /\ StreamIdle

InitParser ==
  /\ p_text \in Texts \cup PairTexts
  /\ p_pc = "call"
  /\ p_result = None
  /\ p_all_pc = "call"
  /\ p_all = << >>
  /\ p_has_pc = "call"
  /\ p_has = FALSE
  /\ AgentIdle
  /\ CacheApiIdle
  /\ GatewayIdle

ExtractContractAddress ==
  /\ p_pc = "call"
  /\ p_result' = extract_contract_address(p_text)
  /\ p_pc' = "done"
  /\ UNCHANGED << p_text, p_all_pc, p_all, p_has_pc, p_has, avars, cvars,
                  gvars, svars >>

ExtractAllAddresses ==
  /\ p_all_pc = "call"
  /\ p_all' = extract_all_addresses(p_text)
  /\ p_all_pc' = "done"
  /\ UNCHANGED << p_text, p_pc, p_result, p_has_pc, p_has, avars, cvars,
                  gvars, svars >>

HasContractAddress ==
  /\ p_has_pc = "call"
  /\ p_has' = has_contract_address(p_text)
  /\ p_has_pc' = "done"
  /\ UNCHANGED << p_text, p_pc, p_result, p_all_pc, p_all, avars, cvars,
                  gvars, svars >>

NextParser ==
  ExtractContractAddress \/ ExtractAllAddresses \/ HasContractAddress

SpecParser == InitParser /\ [][NextParser]_vars

(***************************************************************************)
(* The agent serving requests                                              *)
(***************************************************************************)
Init ==
  /\ ParserIdle
  /\ CacheApiIdle
  /\ GatewayIdle
  /\ req \in [Reqs -> { NewRequest(p) : p \in Prompts }]
  /\ files \in [CacheKeys -> {NoFile, CorruptFile(0)}]
  /\ now = 0
  /\ cache_enabled \in BOOLEAN
  /\ StreamIdle

\* the events a step of request r emits through its response handler reach
\* the queue of the request
Emit(r) ==
  /\ queue' = queue_put(queue, r,
                        SubSeq(req'[r].events, Len(req[r].events) + 1,
                               Len(req'[r].events)))
  /\ UNCHANGED << sent, s_pc >>

\* assist runs up to its first outbound call: extraction, routing and, for
\* an address, the cache lookup (CacheManager.get never suspends).  Requests
\* are numbered in the order in which they arrive.  A prompt that is no
\* string fails at `query.prompt.strip()`, line 79.
Assist(r) ==
  /\ req[r].pc = "start"
  /\ \A o \in Reqs : o < r => req[o].pc # "start"
  /\ IF req[r].prompt = NonePrompt
     THEN /\ req' = [req EXCEPT ![r] = on_exception(req[r], "AttributeError")]
          /\ files' = files
     ELSE
     LET ca == assist_address(req[r])
         q  == [req[r] EXCEPT !.contract_address = ca]
     IN  IF ~ca.some
         THEN /\ req' = [req EXCEPT ![r] = assist_no_address(q)]
              /\ files' = files
         ELSE IF cache_enabled
              THEN LET g == get(files, cache_key(ca.val), now)
                   IN  /\ files' = g.files
                       /\ req' = [req EXCEPT ![r] =
                                    IF g.raised # ""
                                    THEN on_exception(q, g.raised)
                                    ELSE after_cache_lookup(q, TRUE, g.value)]
              ELSE /\ files' = files
                   /\ req' = [req EXCEPT ![r] =
                                after_cache_lookup(q, FALSE, None)]
  /\ Emit(r)
  /\ UNCHANGED << pvars, cvars, gvars, now, cache_enabled >>

\* the scanning service answers, fails or times out
ScanReturn(r) ==
  /\ req[r].pc = "scan"
  /\ \E outcome \in ScanTransport :
        req' = [req EXCEPT ![r] = after_scan(req[r], outcome)]
  /\ Emit(r)
  /\ UNCHANGED << pvars, cvars, gvars, files, now, cache_enabled >>

\* the model service answers or fails
LlmReturn(r) ==
  /\ req[r].pc = "llm"
  /\ \E outcome \in LlmTransport :
        req' = [req EXCEPT ![r] = after_llm(req[r], outcome, LlmText(r))]
  /\ Emit(r)
  /\ UNCHANGED << pvars, cvars, gvars, files, now, cache_enabled >>

\* a slip: the store made without the test `if self.cache_manager`
StoreCache_NoSwitch(r) ==
  /\ req[r].pc = "store"
  /\ \E write \in {"written", "refused"} :
        LET s == set(files, cache_key(req[r].contract_address.val),
                     cache_data(req[r]), now, write)
        IN  /\ files' = s.files
            /\ req' = [req EXCEPT ![r] = after_store(req[r], cache_enabled, s)]
  /\ Emit(r)
  /\ UNCHANGED << pvars, cvars, gvars, now, cache_enabled >>

\* how the write of a request's store ends: it goes through or it is
\* refused (a write torn midway is taken up with the cache on its own, in
\* SpecCache)
StoreWrites == {"written", "refused"}

\* the result is stored (when there is a cache) and the request completes
StoreCache(r) ==
  /\ req[r].pc = "store"
  /\ IF cache_enabled
     THEN \E write \in StoreWrites :
            LET s == set(files, cache_key(req[r].contract_address.val),
                         cache_data(req[r]), now, write)
            IN  /\ files' = s.files
                /\ req' = [req EXCEPT ![r] = after_store(req[r], TRUE, s)]
     ELSE /\ files' = files
          /\ req' = [req EXCEPT ![r] =
                       after_store(req[r], FALSE, SetResult(files, FALSE, ""))]
  /\ Emit(r)
  /\ UNCHANGED << pvars, cvars, gvars, now, cache_enabled >>

\* general chat: the model service answers or fails
ChatReturn(r) ==
  /\ req[r].pc = "chat"
  /\ \E outcome \in LlmTransport :
        req' = [req EXCEPT ![r] = after_chat(req[r], outcome, LlmText(r))]
  /\ Emit(r)
  /\ UNCHANGED << pvars, cvars, gvars, files, now, cache_enabled >>

\* time passes
Tick ==
  /\ now < MaxTime
  /\ now' = now + 1
  /\ UNCHANGED << pvars, cvars, gvars, svars, req, files, cache_enabled >>

Next ==
  \/ \E r \in Reqs : Assist(r)
  \/ \E r \in Reqs : ScanReturn(r)
  \/ \E r \in Reqs : LlmReturn(r)
  \/ \E r \in Reqs : StoreCache(r)
  \/ \E r \in Reqs : ChatReturn(r)
  \/ Tick

Spec == Init /\ [][Next]_vars

(***************************************************************************)
(* One request, on every input and outcome that makes a step raise         *)
(***************************************************************************)
FaultPrompts ==
  Prompts \cup { NonePrompt,
                 << "h","e","l","l","o",","," ","C","A",":"," " >> \o Addr1
                   \o << "?" >>,
                 << "H","I"," ","T","h","e","r","e"," " >> \o Rep("0", 40),
                 << "h","e","l","p"," ","m","e"," " >> \o Rep("0", 31),
                 << " ","w","h","o"," ","a","r","e"," ","y","o","u","?","\n" >> }

\* what a cache file can hold when the request arrives
FaultFiles ==
  { NoFile, CorruptFile(0),
    JsonFile(0, JsonText("array", ApiItems)),
    JsonFile(0, JsonText("object", ApiItems)) }

FaultTransport == ScanTransport \cup {"200_list", "401", "403"}

InitOne ==
  /\ ParserIdle
  /\ CacheApiIdle
  /\ GatewayIdle
  /\ \E prompt \in FaultPrompts :
        req = [r \in Reqs |->
                 IF r = 1 THEN NewRequest(prompt)
                 ELSE [NewRequest(<< >>) EXCEPT !.pc = "idle"]]
  /\ files \in [CacheKeys -> FaultFiles]
  /\ now = 0
  /\ cache_enabled \in BOOLEAN
  /\ StreamIdle

\* the scanning service answers, fails or times out
ScanReturnAny(r) ==
  /\ req[r].pc = "scan"
  /\ \E outcome \in FaultTransport :
        req' = [req EXCEPT ![r] = after_scan(req[r], outcome)]
  /\ Emit(r)
  /\ UNCHANGED << pvars, cvars, gvars, files, now, cache_enabled >>

NextOne ==
  \/ Assist(1)
  \/ ScanReturnAny(1)
  \/ LlmReturn(1)
  \/ StoreCache(1)
  \/ ChatReturn(1)
  \/ Tick

SpecOne == InitOne /\ [][NextOne]_vars

(***************************************************************************)
(* Concurrent requests and the consumers that forward their events         *)
(***************************************************************************)
\* the outcomes of the scanning call that the requests of this
\* specification meet: a report, an error dict and an exception (the other
\* outcomes change the text of an event, not the way it travels)
StreamScans == {"200_json", "404", "timeout"}

\* and of the model call of the analysis: a text
StreamLlm == {"200"}

InitStream ==
  /\ ParserIdle
  /\ CacheApiIdle
  /\ GatewayIdle
  /\ req \in [Reqs -> { NewRequest(p) : p \in Prompts }]
  /\ files = [k \in CacheKeys |-> NoFile]
  /\ now = 0
  /\ cache_enabled = TRUE
  /\ StreamIdle

\* a slip: no break after the completion event, so the consumer goes back
\* to waiting on its queue
Forward_NoBreak(r) ==
  /\ s_pc[r] = "reading"
  /\ queue[r] # << >>
  /\ LET g == queue_get(queue[r])
     IN  /\ queue' = [queue EXCEPT ![r] = g.rest]
         /\ sent' = [sent EXCEPT ![r] = Append(@, g.event)]
         /\ s_pc' = s_pc
  /\ UNCHANGED << pvars, avars, cvars, gvars >>

\* one turn of the loop of __stream_agent_output for request r: the next
\* event is taken from the queue of the request and forwarded to its
\* client, and the loop is left when the event is the completion event
\* (nothing in the loop raises, so its except branch is never entered)
Forward(r) ==
  /\ s_pc[r] = "reading"
  /\ queue[r] # << >>
  /\ LET g == queue_get(queue[r])
     IN  /\ queue' = [queue EXCEPT ![r] = g.rest]
         /\ sent' = [sent EXCEPT ![r] = Append(@, g.event)]
         /\ s_pc' = [s_pc EXCEPT ![r] =
                        IF g.event.type = DoneEvent.type THEN "stopped"
                        ELSE "reading"]
  /\ UNCHANGED << pvars, avars, cvars, gvars >>

\* the scanning call of request r ends in one of the outcomes StreamScans
StreamScanReturn(r) == ScanReturn(r) /\ req'[r].scan \in StreamScans

\* the model call of the analysis of request r ends in one of StreamLlm
StreamLlmReturn(r) == LlmReturn(r) /\ req'[r].llm \in StreamLlm

NextStream ==
  \/ \E r \in Reqs : Assist(r)
  \/ \E r \in Reqs : StreamScanReturn(r)
  \/ \E r \in Reqs : StreamLlmReturn(r)
  \/ \E r \in Reqs : StoreCache(r)
  \/ \E r \in Reqs : ChatReturn(r)
  \/ \E r \in Reqs : Forward(r)

SpecStream == InitStream /\ [][NextStream]_vars

\* the guard of Assist(r): the task of request r is created and has not
\* run yet, the earlier requests have started
AssistReady(r) ==
  /\ req[r].pc = "start"
  /\ \A o \in Reqs : o < r => req[o].pc # "start"

\* a step of a request after its start, or of a consumer
StreamResume ==
  \E r \in Reqs :
     \/ StreamScanReturn(r)
     \/ StreamLlmReturn(r)
     \/ StoreCache(r)
     \/ ChatReturn(r)
     \/ Forward(r)

\* a new task is run
StreamStart == \E r \in Reqs : Assist(r)

\* the same with the scheduling of the event loop: while a task is ready to
\* run, an outbound call is awaited (each returns a response, an error or a
\* timeout) or a consumer has an event in its queue, one of them goes on.
\* The first conjunct is WF_vars(StreamStart) written out, with the guard
\* of Assist for ENABLED.
SpecStreamFair ==
  /\ SpecStream
  /\ []<>(~\E r \in Reqs : AssistReady(r)) \/ []<><<StreamStart>>_vars
  /\ WF_vars(StreamResume)

(***************************************************************************)
(* The methods of CacheManager called in any order                         *)
(***************************************************************************)
InitCache ==
  /\ ParserIdle
  /\ GatewayIdle
  /\ req = [r \in Reqs |-> NewRequest(<< >>)]
  /\ cache_enabled = TRUE
  /\ files \in [ApiKeys -> {NoFile, CorruptFile(0)}]
  /\ now = 0
  /\ CacheApiIdle
  /\ StreamIdle

CacheSet(key, value, write) ==
  LET s == set(files, key, value, now, write)
  IN  /\ files' = s.files
      /\ c_last' = Call("set", key, Some(value), None, s.ok, 0, s.raised, "")
      /\ c_written' = [c_written EXCEPT ![key] =
                         IF s.ok THEN Some(value)
                         ELSE IF s.files = files THEN c_written[key]
                         ELSE None]
      /\ c_over' = [c_over EXCEPT ![key] =
                      IF s.ok
                      THEN /\ files[key].present /\ files[key].json
                           /\ files[key].data # s.files[key].data
                      ELSE IF s.files = files THEN c_over[key]
                      ELSE FALSE]
      /\ UNCHANGED << pvars, gvars, svars, req, now, cache_enabled >>

CacheGet(key) ==
  LET g == get(files, key, now)
  IN  /\ files' = g.files
      /\ c_last' = Call("get", key, None, g.value, FALSE, 0, g.raised, g.log)
      /\ UNCHANGED << pvars, gvars, svars, req, now, cache_enabled,
                      c_written, c_over >>

CacheDelete(key) ==
  LET d == delete(files, key)
  IN  /\ files' = d.files
      /\ c_last' = Call("delete", key, None, None, d.ok, 0, "", "")
      /\ c_written' = [c_written EXCEPT ![key] = None]
      /\ c_over' = [c_over EXCEPT ![key] = FALSE]
      /\ UNCHANGED << pvars, gvars, svars, req, now, cache_enabled >>

CacheClearAll ==
  LET c == clear_all(files)
  IN  /\ files' = c.files
      /\ c_last' = Call("clear_all", << >>, None, None, FALSE, c.count, "", "")
      /\ c_written' = [k \in ApiKeys |-> None]
      /\ c_over' = [k \in ApiKeys |-> FALSE]
      /\ UNCHANGED << pvars, gvars, svars, req, now, cache_enabled >>

NextCache ==
  \/ \E key \in ApiKeys, value \in ApiValues, write \in WriteOutcomes :
        CacheSet(key, value, write)
  \/ \E key \in ApiKeys : CacheGet(key)
  \/ \E key \in ApiKeys : CacheDelete(key)
  \/ CacheClearAll
  \/ Tick

SpecCache == InitCache /\ [][NextCache]_vars

(***************************************************************************)
(* analyze_token called on one outcome of the outbound GET                 *)
(***************************************************************************)
\* the statuses other than 200
OtherStatuses == (100..599) \ {200}

GatewayOutcomes ==
  {"200_json", "200_list", "200_garbage", "conn_error", "timeout"}
    \cup { ToString(status) : status \in OtherStatuses }

InitGateway ==
  /\ ParserIdle
  /\ AgentIdle
  /\ CacheApiIdle
  /\ g_outcome \in GatewayOutcomes
  /\ g_pc = "call"
  /\ g_result = [raised |-> "", value |-> ScanDict("", "", "")]

AnalyzeToken ==
  /\ g_pc = "call"
  /\ g_result' = solsniffer_analyze_token(g_outcome)
  /\ g_pc' = "done"
  /\ UNCHANGED << pvars, avars, cvars, svars, g_outcome >>

NextGateway == AnalyzeToken

SpecGateway == InitGateway /\ [][NextGateway]_vars

(***************************************************************************)
(* Properties of the orchestrator (specification Spec)                     *)
(***************************************************************************)
DoneCount(ev) == Cardinality({ i \in 1..Len(ev) : ev[i].type = "DONE" })

\* the transport outcomes for which the scanning gateway returns an error
\* result
ScanErrorResults == {"200_garbage", "404", "429", "500", "conn_error"}

\* C1: on every path of a request the completion signal is emitted exactly
\* once: never twice, it is the last event, nothing follows it, and a call
\* of assist that has returned has emitted it.
C1_ExactlyOneCompletion ==
  \A r \in Reqs :
     LET ev == req[r].events
     IN  /\ DoneCount(ev) <= 1
         /\ DoneCount(ev) = 1 => ev[Len(ev)].type = "DONE"
         /\ req[r].pc = "returned" => DoneCount(ev) = 1

\* C1 witness: one request that ran the whole pipeline and one that ended by
\* an exception inside the pipeline have both returned, each with its
\* completion signal.
C1_Witness ==
  \E r1, r2 \in Reqs :
     /\ req[r1].pc = "returned" /\ req[r1].stored = "ok"
     /\ req[r2].pc = "returned" /\ req[r2].scan = "timeout"
     /\ DoneCount(req[r1].events) = 1 /\ DoneCount(req[r2].events) = 1

\* a request that ran the whole pipeline with both services succeeding
FullSuccess(r) ==
  /\ req[r].pc = "returned"
  /\ req[r].contract_address.some
  /\ req[r].lookup # "hit"
  /\ req[r].scan = "200_json"
  /\ req[r].llm = "200"

FileOf(fs, r) == fs[_get_cache_path(cache_key(req[r].contract_address.val))]

C4_ReportError ==
  \A r \in Reqs :
     (req[r].pc # "scan" /\ req[r].scan \in ScanErrorResults) =>
        /\ req[r].events =
             << StatusAnalyzing,
                Event("ERROR", FALSE,
                      solsniffer_analyze_token(req[r].scan).value.message),
                DoneEvent >>
        /\ solsniffer_analyze_token(req[r].scan).value.message # ""
        /\ req[r].pc = "returned"
        /\ req[r].llm_calls = 0
        /\ req[r].cache_sets = 0

\* C4 witness: a request has ended on a 404 of the scanning service.
C4_Witness ==
  \E r \in Reqs : req[r].pc = "returned" /\ req[r].scan = "404"

\* C5 as stated: a request whose model call failed writes nothing to the
\* cache, and no cache entry holds an error text as its advisory.
C5_NoStoreOnAdvisoryFailure ==
  /\ \A r \in Reqs :
        req[r].llm \in {"non200", "exception"} /\ req[r].pc = "returned"
           => req[r].cache_sets = 0
  /\ \A k \in CacheKeys :
        files[k].present /\ files[k].json
           => files[k].data.items.ai_response \notin {LlmStatusError, LlmException}

(***************************************************************************)
(* Properties of the parser (specification SpecParser)                     *)
(***************************************************************************)
DistinctChars(s) == Cardinality({ s[i] : i \in 1..Len(s) })

AllBase58(s) == \A i \in 1..Len(s) : s[i] \in Base58Chars

\* an Address of the data model: length, alphabet and at least 10 distinct
\* symbols
IsAddress(s) ==
  /\ Len(s) >= 32 /\ Len(s) <= 44
  /\ AllBase58(s)
  /\ DistinctChars(s) >= 10

IsSubstring(a, t) ==
  \E i \in 1..(Len(t) - Len(a) + 1) : SubSeq(t, i, i + Len(a) - 1) = a

IsBlank(t) == \A i \in 1..Len(t) : t[i] \in Whitespace

\* some 32 consecutive characters of t are all alphabet characters
HasLongRun(t) ==
  \E i \in 1..(Len(t) - 31) : \A k \in 0..31 : t[i + k] \in Base58Chars

Delimiters == {" ", "\t", "\n", "\r", ",", ";", ":", ".", "!", "?"}

\* the tokens of t: the maximal stretches without a delimiter, as index pairs
TokenSpans(t) ==
  LET starts == { i \in 1..Len(t) :
                    t[i] \notin Delimiters /\ (i = 1 \/ t[i - 1] \in Delimiters) }
      ends   == { j \in 1..Len(t) :
                    t[j] \notin Delimiters
                      /\ (j = Len(t) \/ t[j + 1] \in Delimiters) }
  IN  { sp \in starts \X ends :
          /\ sp[1] <= sp[2]
          /\ \A i \in sp[1]..sp[2] : t[i] \notin Delimiters }

\* C6: a text that is itself an Address is returned as it is.
C6_ExtractIdentity ==
  (p_pc = "done" /\ IsAddress(p_text)) => p_result = Some(p_text)

\* C6 witness: the parser ran on an Address of the greatest length.
C6_Witness ==
  /\ p_pc = "done" /\ IsAddress(p_text) /\ Len(p_text) = 44
  /\ p_result = Some(p_text)

\* C7 as stated: extract never returns a string with fewer than 10 distinct
\* characters.
C7_NeverLowDiversity ==
  (p_pc = "done" /\ p_result.some) => DistinctChars(p_result.val) >= 10

\* C8: a returned value has a length in [32,44], only alphabet characters,
\* and is a contiguous part of the text; a blank or empty text gives None.
C8_ResultShape ==
  p_pc = "done" =>
     /\ p_result.some =>
          /\ Len(p_result.val) >= 32 /\ Len(p_result.val) <= 44
          /\ AllBase58(p_result.val)
          /\ IsSubstring(p_result.val, p_text)
     /\ IsBlank(p_text) => p_result = None

\* C8 witness: the parser returned a proper part of a text.
C8_Witness ==
  /\ p_pc = "done" /\ p_result.some
  /\ p_result.val # p_text
  /\ Len(p_text) > 44

\* C9: a text without 32 consecutive alphabet characters gives None.
C9_NoRunNoAddress ==
  (p_pc = "done" /\ ~HasLongRun(p_text)) => p_result = None

\* C9 witness: the parser ran on "0" repeated 40 times.
C9_Witness ==
  p_pc = "done" /\ p_text = Rep("0", 40) /\ p_result = None

\* C10 as stated: when exactly one token of the text is an Address, that
\* token is returned, without any separator (this covers a ++ "?" and
\* "CA: " ++ a).
C10_OnlyAddressReturned ==
  p_pc = "done" =>
     \A sp \in TokenSpans(p_text) :
        ( /\ IsAddress(SubSeq(p_text, sp[1], sp[2]))
          /\ \A o \in TokenSpans(p_text) :
                IsAddress(SubSeq(p_text, o[1], o[2])) => o = sp )
        => p_result = Some(SubSeq(p_text, sp[1], sp[2]))

(***************************************************************************)
(* Properties of extract_all_addresses (specification SpecParser)          *)
(***************************************************************************)
\* the maximal runs of alphabet characters of a text
MaximalRuns(t) ==
  { SubSeq(t, i, FirstNotIn(t, i, Base58Chars) - 1) :
      i \in { k \in 1..Len(t) :
                /\ t[k] \in Base58Chars
                /\ (k = 1 \/ t[k - 1] \notin Base58Chars) } }

\* a text whose alphabet runs are addresses, two distinct ones in all
TwoAddressText(t) ==
  /\ \A run \in MaximalRuns(t) : IsAddress(run)
  /\ Cardinality(MaximalRuns(t)) = 2

\* C11: on a text containing two distinct addresses, in any order and with
\* or without a repetition of one of them, extract_all_addresses returns
\* exactly those two values and no value twice.
C11_ExtractAllExact ==
  (p_all_pc = "done" /\ TwoAddressText(p_text)) =>
     /\ { p_all[i] : i \in 1..Len(p_all) } = MaximalRuns(p_text)
     /\ \A i, j \in 1..Len(p_all) : i # j => p_all[i] # p_all[j]

\* C28 as stated: extract never returns a proper part of a longer
\* contiguous run of alphabet characters: what it returns is a whole run,
\* with no alphabet character next to it in the text.
C28_OnlyMaximalRuns ==
  (p_pc = "done" /\ p_result.some) => p_result.val \in MaximalRuns(p_text)

\* the characters of a word: letters, digits and the underscore
WordChars ==
  { UPPERCASE[i] : i \in 1..Len(UPPERCASE) }
    \cup { LOWERCASE[i] : i \in 1..Len(LOWERCASE) }
    \cup { "0", "1", "2", "3", "4", "5", "6", "7", "8", "9", "_" }

IsWordOrSpace(c) == c \in WordChars \cup Whitespace

\* the text without its characters that are neither of a word nor whitespace
WithoutNonWord(t) == SelectSeq(t, IsWordOrSpace)

\* the stretches of t without whitespace that are addresses, as index pairs
AddressWords(t) ==
  { sp \in (1..Len(t)) \X (1..Len(t)) :
      /\ sp[2] - sp[1] + 1 >= MIN_LENGTH
      /\ sp[2] - sp[1] + 1 <= MAX_LENGTH
      /\ sp[1] = 1 \/ t[sp[1] - 1] \in Whitespace
      /\ sp[2] = Len(t) \/ t[sp[2] + 1] \in Whitespace
      /\ IsAddress(SubSeq(t, sp[1], sp[2])) }

\* C29 as stated: when no delimited token and no alphabet run of the text
\* is an address but the text without its non-word characters has a
\* whitespace-delimited token that is one, extract returns the first such
\* token.
C29_StrippedTokenReturned ==
  p_pc = "done" =>
     LET cleaned == WithoutNonWord(p_text)
         found   == AddressWords(cleaned)
     IN  ( /\ \A sp \in TokenSpans(p_text) :
                 ~IsAddress(SubSeq(p_text, sp[1], sp[2]))
           /\ \A run \in MaximalRuns(p_text) : ~IsAddress(run)
           /\ found # {} )
         => LET first == CHOOSE sp \in found :
                            \A o \in found : sp[1] <= o[1]
            IN  p_result = Some(SubSeq(cleaned, first[1], first[2]))

\* C32: extract and extract_all agree on every text: extract returns None
\* exactly when extract_all returns the empty list, has_contract_address
\* returns true exactly when that list is not empty, and an address that
\* extract returns is in the list.
C32_ExtractAgreesWithAll ==
  /\ (p_pc = "done" /\ p_all_pc = "done") =>
        /\ p_result = None <=> p_all = << >>
        /\ p_result.some => \E i \in 1..Len(p_all) : p_all[i] = p_result.val
  /\ (p_has_pc = "done" /\ p_all_pc = "done") => (p_has <=> p_all # << >>)

\* C32 witness: the three functions ran on a text with two addresses that
\* only the pattern finds; extract returned the first of the list.
C32_Witness ==
  /\ p_pc = "done" /\ p_all_pc = "done" /\ p_has_pc = "done"
  /\ p_has
  /\ Len(p_all) = 2
  /\ p_result = Some(p_all[1])
  /\ p_all[1] \notin { SubSeq(p_text, sp[1], sp[2]) : sp \in TokenSpans(p_text) }

(***************************************************************************)
(* Properties of the cache (specification SpecCache)                       *)
(***************************************************************************)
\* the step is a call of the method op on key
IsCall(op, key) == now' = now /\ c_last'.op = op /\ c_last'.key = key

\* the values that are JSON documents: dicts with string keys and lists
JsonDocuments == { v \in ApiValues : v.py \in {"dict", "list"} }

\* the entry of key was written by a successful set(key, v), nothing but
\* reads of key and refused writes came after it, and the TTL has not
\* elapsed
FreshlyWritten(key) ==
  /\ c_written[key].some
  /\ files[key].present
  /\ now - files[key].mtime <= ttl_seconds

\* C12 as stated: for every key k and every value v that json.dumps
\* accepts, get(k) after a successful set(k, v), before the TTL elapses and
\* with no other operation on k in between, returns a value equal to v.
C12_AsStated ==
  [][ \A key \in ApiKeys :
        (IsCall("get", key) /\ FreshlyWritten(key))
           => c_last'.value = c_written[key]
    ]_vars

\* C12: for every key k and every value v that is a JSON document (a dict
\* with string keys or a list), get(k) after a successful set(k, v), before
\* the TTL elapses and with no other operation on k in between, returns a
\* value equal to v.
C12_RoundTrip ==
  [][ \A key \in ApiKeys :
        ( /\ IsCall("get", key)
          /\ FreshlyWritten(key)
          /\ c_written[key].val \in JsonDocuments )
           => c_last'.value = c_written[key]
    ]_vars

\* C12 witness: a get, made exactly one TTL after the set of a dict,
\* returned that dict.
C12_Witness ==
  /\ c_last.op = "get"
  /\ c_last.value = Some(PyValue("dict", ApiItems))
  /\ c_written[c_last.key] = c_last.value
  /\ now - files[c_last.key].mtime = ttl_seconds

\* C13: a get of an entry whose age is strictly greater than the TTL
\* returns absent, deletes the entry, and does so without reading or
\* parsing its content (it logs the expiry, never a read error); a get of an entry whose age is at most the TTL leaves the entry
\* in place and, when its content is a JSON text, returns a value.
C13_Expiry ==
  [][ \A key \in ApiKeys :
        (IsCall("get", key) /\ files[key].present) =>
           IF now - files[key].mtime > ttl_seconds
           THEN /\ c_last'.value = None
                /\ c_last'.log = "expired"
                /\ ~files'[key].present
           ELSE /\ files'[key] = files[key]
                /\ files[key].json => c_last'.value.some
    ]_vars

\* C13 witness: a get found an entry older than the TTL, returned absent
\* and removed the entry.
C13_Witness ==
  /\ c_last.op = "get"
  /\ c_last.log = "expired"
  /\ c_last.value = None
  /\ ~files[c_last.key].present

\* C14: a get of an entry whose content cannot be read or is not a JSON
\* text returns absent, and no exception leaves a call of get.
C14_GetFailsSoft ==
  [][ \A key \in ApiKeys :
        IsCall("get", key) =>
           /\ c_last'.raised = ""
           /\ (files[key].present /\ ~files[key].json) => c_last'.value = None
    ]_vars

\* C14 witness: a get read an entry within its TTL whose content is no
\* JSON text, and returned absent.
C14_Witness ==
  /\ c_last.op = "get"
  /\ c_last.log = "read error"
  /\ c_last.value = None
  /\ files[c_last.key].present /\ ~files[c_last.key].json

\* C16: delete(k) returns true exactly when an entry of k was present;
\* afterwards there is no entry of k, so get(k) is absent, and the entries
\* of the other keys are unchanged.  clear_all returns the number of entries
\* that existed and leaves no entry, so get is absent for every key.
C16_DeleteAndClear ==
  [][ /\ \A key \in ApiKeys :
           IsCall("delete", key) =>
              /\ c_last'.ok = files[key].present
              /\ get(files', key, now').value = None
              /\ ~files'[key].present
              /\ \A other \in ApiKeys \ {key} : files'[other] = files[other]
      /\ IsCall("clear_all", << >>) =>
              /\ c_last'.count =
                   Cardinality({ key \in ApiKeys : files[key].present })
              /\ \A key \in ApiKeys :
                    ~files'[key].present /\ get(files', key, now').value = None
    ]_vars

\* C16 witness: a delete returned true and left the entry of the other key
\* in place.
C16_Witness ==
  /\ c_last.op = "delete"
  /\ c_last.ok
  /\ \E other \in ApiKeys \ {c_last.key} :
        files[other].present /\ files[other].json

\* what a get returns for an entry that holds the text written for value
Reread(value) == Some(json_loads(json_dumps(value).text))

\* C30: a get returns absent or the whole value of the last successful set
\* of its key, never a part of it and never a mixture with an older value;
\* a successful set leaves an entry that holds the text of its own value
\* whatever the entry held before, so after several sets the entry is that
\* of the last one; an entry that holds a JSON text always holds the whole
\* text of the last successful set of its key.
C30_WholeEntryReplacement ==
  /\ [](\A key \in ApiKeys :
           (files[key].present /\ files[key].json) =>
              /\ c_written[key].some
              /\ files[key].data = json_dumps(c_written[key].val).text)
  /\ [][ \A key \in ApiKeys :
           IsCall("get", key) =>
              \/ c_last'.value = None
              \/ /\ c_written[key].some
                 /\ c_last'.value = Reread(c_written[key].val)
       ]_vars
  /\ [][ \A key \in ApiKeys :
           (IsCall("set", key) /\ c_last'.ok) =>
              /\ files'[key] = JsonFile(now, json_dumps(c_last'.arg.val).text)
              /\ c_written'[key] = c_last'.arg
              /\ \A other \in ApiKeys \ {key} : files'[other] = files[other]
       ]_vars

\* C30 witness: a get returned a list, the value of a set that had replaced
\* an entry holding another JSON text.
C30_Witness ==
  /\ c_last.op = "get"
  /\ c_over[c_last.key]
  /\ c_written[c_last.key].some
  /\ c_written[c_last.key].val.py = "list"
  /\ c_last.value = c_written[c_last.key]

(***************************************************************************)
(* Further properties of the orchestrator (specification Spec)             *)
(***************************************************************************)
\* the events of a request that ran the whole pipeline
PipelineEvents(r) ==
  << StatusAnalyzing, StatusProcessing,
     Event("AI_ANALYSIS", FALSE, req[r].ai_response), DoneEvent >>

\* C15: a failing cache write is not raised: set returns false and leaves
\* the call without an exception, and a request whose store failed has
\* emitted the same events as one whose store succeeded, ending with exactly
\* one completion signal.
C15_StoreFailureSilent ==
  \A r \in Reqs :
     /\ (req[r].pc = "store" /\ cache_enabled) =>
           \A write \in WriteOutcomes \ {"written"} :
              LET s == set(files, cache_key(req[r].contract_address.val),
                           cache_data(req[r]), now, write)
              IN  ~s.ok /\ s.raised = ""
     /\ (req[r].pc = "returned" /\ req[r].cache_sets = 1) =>
           /\ req[r].stored \in {"ok", "failed"}
           /\ req[r].caught = ""
           /\ req[r].events = PipelineEvents(r)
           /\ DoneCount(req[r].events) = 1

\* C15 witness: one request's store failed, another's succeeded, and both
\* have returned.
C15_Witness ==
  \E r1, r2 \in Reqs :
     /\ req[r1].pc = "returned" /\ req[r1].stored = "failed"
     /\ req[r2].pc = "returned" /\ req[r2].stored = "ok"
     /\ req[r1].events = PipelineEvents(r1)

\* C19: within one request the scanning service is called at most once and
\* the model service at most once; after a failed scanning call the request
\* has ended with no further call, and after a failed model call no second
\* model call is made.
C19_AtMostOneCallEach ==
  \A r \in Reqs :
     /\ req[r].scan_calls <= 1
     /\ req[r].llm_calls <= 1
     /\ (req[r].scan \notin {"none", "200_json"}) =>
           /\ req[r].pc = "returned"
           /\ req[r].scan_calls = 1
           /\ req[r].llm_calls = 0
     /\ (req[r].llm \in {"non200", "exception"}) =>
           /\ req[r].pc \in {"store", "returned"}
           /\ req[r].llm_calls = 1
           /\ req[r].scan_calls <= 1

\* C19 witness: one request has ended on a failed scanning call, another on
\* a failed model call, each service called once at most.
C19_Witness ==
  \E r1, r2 \in Reqs :
     /\ req[r1].pc = "returned" /\ req[r1].scan = "500"
     /\ req[r1].scan_calls = 1 /\ req[r1].llm_calls = 0
     /\ req[r2].pc = "returned" /\ req[r2].llm = "exception"
     /\ req[r2].scan_calls = 1 /\ req[r2].llm_calls = 1

\* the greeting of _handle_greeting: an event no other path emits
IsGreeted(r) ==
  \E i \in 1..Len(req[r].events) : req[r].events[i].type = "GREETING"

\* C22: a request on the greeting path emits exactly the greeting content
\* and the completion signal, calls neither service, and neither reads nor
\* writes the cache.
C22_GreetingPath ==
  \A r \in Reqs :
     ( /\ req[r].pc # "start"
       /\ ~req[r].contract_address.some
       /\ _is_greeting(strip(req[r].prompt)) ) =>
        /\ req[r].events = << Event("GREETING", FALSE, "greeting"), DoneEvent >>
        /\ req[r].pc = "returned"
        /\ req[r].scan_calls = 0
        /\ req[r].llm_calls = 0
        /\ req[r].lookup = "none"
        /\ req[r].cache_sets = 0

\* C22 witness: the request "Hello" has returned after its greeting.
C22_Witness ==
  \E r \in Reqs :
     /\ req[r].prompt = << "H","e","l","l","o" >>
     /\ req[r].pc = "returned"
     /\ IsGreeted(r)

\* a request that went down the chat path
IsChat(r) ==
  /\ req[r].pc # "start"
  /\ ~req[r].contract_address.some
  /\ ~_is_greeting(strip(req[r].prompt))

\* C23: a request on the general-chat path never calls the scanning service
\* and never touches the cache; once returned it has called the model
\* service exactly once and emitted one content block and the completion
\* signal, whatever the model call did.
C23_ChatPath ==
  \A r \in Reqs :
     IsChat(r) =>
        /\ req[r].scan_calls = 0
        /\ req[r].lookup = "none"
        /\ req[r].cache_sets = 0
        /\ req[r].pc \in {"chat", "returned"}
        /\ req[r].pc = "chat" => (req[r].llm_calls = 0 /\ req[r].events = << >>)
        /\ req[r].pc = "returned" =>
              /\ req[r].llm_calls = 1
              /\ req[r].llm \in LlmTransport
              /\ Len(req[r].events) = 2
              /\ req[r].events[1].type = "CHAT_RESPONSE"
              /\ req[r].events[2] = DoneEvent

\* C23 witness: one chat request ended on a model call that raised, another
\* on one that answered.
C23_Witness ==
  \E r1, r2 \in Reqs :
     /\ IsChat(r1) /\ req[r1].pc = "returned" /\ req[r1].llm = "exception"
     /\ IsChat(r2) /\ req[r2].pc = "returned" /\ req[r2].llm = "200"

\* the texts of the content blocks of a request, in order, with whether a
\* block is marked as cached
ContentOf(r) ==
  LET ev == req[r].events
      ix == { i \in 1..Len(ev) : ev[i].type # "DONE" }
  IN  [n \in 1..Cardinality(ix) |->
         LET i == CHOOSE i \in ix : Cardinality({ j \in ix : j <= i }) = n
         IN  [cached |-> ev[i].cached, text |-> ev[i].text]]

\* C26 as stated: a request answered from the cache emits what was
\* persisted, the risk report and the advisory text, with nothing added or
\* left out.
C26_AsStated ==
  \A r \in Reqs :
     req[r].lookup = "hit" =>
        \E w \in Reqs :
           /\ req[w].stored = "ok"
           /\ ContentOf(r) =
                << [cached |-> FALSE, text |-> req[w].analysis_data.report],
                   [cached |-> FALSE, text |-> req[w].ai_response] >>

\* C26: a request answered from the cache emits one content block, the
\* advisory text persisted by the request that populated the entry, marked
\* as cached, and then the completion signal; the persisted risk report is
\* not emitted.
C26_CachedAdvisoryReplay ==
  \A r \in Reqs :
     req[r].lookup = "hit" =>
        \E w \in Reqs :
           /\ w # r
           /\ req[w].stored = "ok"
           /\ ContentOf(r) = << [cached |-> TRUE, text |-> req[w].ai_response] >>
           /\ req[r].events[Len(req[r].events)] = DoneEvent
           /\ \A i \in 1..Len(req[r].events) :
                 req[r].events[i].text # req[w].analysis_data.report

\* C26 witness: a request was answered from the cache with the advisory
\* text of the request that stored it.
C26_Witness ==
  \E r, w \in Reqs :
     /\ req[r].lookup = "hit" /\ req[r].pc = "returned"
     /\ req[w].stored = "ok" /\ req[w].llm = "200"
     /\ ContentOf(r) = << [cached |-> TRUE, text |-> LlmText(w)] >>

\* request r arrives in this step with an address, the cache being on
Arrives(r) ==
  /\ req[r].pc = "start"
  /\ req'[r].pc # "start"
  /\ req'[r].contract_address.some
  /\ cache_enabled

\* the cache file request r looks at when it arrives
FileAtArrival(r) ==
  files[_get_cache_path(cache_key(req'[r].contract_address.val))]

\* C27: a request that finds a corrupt or an expired entry goes on exactly
\* as one that finds none: it announces the analysis and goes to the
\* scanning call; when it has stored its result, the entry holds that result
\* whatever was there before; and an entry that holds a stored result within
\* its TTL is a cache hit for the request that arrives.
C27_CorruptOrExpiredIsMiss ==
  /\ [][ \A r \in Reqs :
           ( /\ Arrives(r)
             /\ LET f == FileAtArrival(r)
                IN  \/ ~f.present
                    \/ ~f.json
                    \/ now - f.mtime > ttl_seconds )
           => /\ req'[r] = [req[r] EXCEPT
                              !.contract_address = req'[r].contract_address,
                              !.events = << StatusAnalyzing >>,
                              !.lookup = "miss",
                              !.pc = "scan"]
              /\ LET f == FileAtArrival(r)
                 IN  (f.present /\ now - f.mtime > ttl_seconds)
                        => ~files'[_get_cache_path(cache_key(
                                 req'[r].contract_address.val))].present
       ]_vars
  /\ [][ \A r \in Reqs :
           ( /\ req[r].pc = "store"
             /\ req'[r].stored = "ok" )
           => /\ req[r].scan_calls = 1 /\ req[r].llm_calls = 1
              /\ FileOf(files', r) =
                   JsonFile(now, JsonText("object", cache_data(req[r]).items))
       ]_vars
  /\ [][ \A r \in Reqs :
           ( /\ Arrives(r)
             /\ LET f == FileAtArrival(r)
                IN  f.present /\ f.json /\ now - f.mtime <= ttl_seconds )
           => req'[r].lookup = "hit"
       ]_vars

\* C27 witness: a request went to the scanning call as on a miss while the
\* corrupt entry it found is still in place.
C27_Witness ==
  \E r \in Reqs :
     /\ req[r].lookup = "miss"
     /\ req[r].pc = "scan"
     /\ FileOf(files, r).present
     /\ ~FileOf(files, r).json

C34_OnlyExpiredDeleted ==
  /\ [][ \A k \in CacheKeys :
           (files[k].present /\ ~files'[k].present) =>
              /\ now - files[k].mtime > ttl_seconds
              /\ \E r \in Reqs :
                    /\ Arrives(r)
                    /\ k = _get_cache_path(cache_key(req'[r].contract_address.val))
       ]_vars
  /\ [][ \A r \in Reqs :
           ( /\ Arrives(r)
             /\ FileAtArrival(r).present
             /\ now - FileAtArrival(r).mtime <= ttl_seconds )
           => files' = files
       ]_vars

\* C34 witness: a request stored its result after time had passed, the get
\* of another request found the entry later, within the TTL, and the entry
\* is still there.
C34_Witness ==
  \E r, w \in Reqs :
     /\ r # w
     /\ req[w].stored = "ok"
     /\ req[r].lookup = "hit"
     /\ FileOf(files, r).present
     /\ FileOf(files, r).mtime > 0
     /\ now > FileOf(files, r).mtime
     /\ now - FileOf(files, r).mtime <= ttl_seconds

\* request r found no entry for its address, ran the pipeline and stored
\* its result
MissedAndStored(r) ==
  /\ req[r].pc = "returned"
  /\ req[r].lookup = "miss"
  /\ req[r].stored = "ok"

\* the text set writes for the result of request r
StoredText(r) == json_dumps(cache_data(req[r])).text

\* C35: two requests for the same address that both found no entry have
\* each called the scanning service once and the model service once and
\* emitted their own four events, the completion signal last and once; the
\* step in which the second of them stores leaves one entry for the
\* address, holding its result; and as long as no other request has looked
\* for the address after them, the entry holds the result of one of the
\* two.
C35_ConcurrentMisses ==
  /\ [](\A r, o \in Reqs :
           ( /\ r # o
             /\ MissedAndStored(r) /\ MissedAndStored(o)
             /\ req[r].contract_address = req[o].contract_address )
           => /\ \A x \in {r, o} :
                    /\ req[x].scan_calls = 1
                    /\ req[x].llm_calls = 1
                    /\ req[x].cache_sets = 1
                    /\ req[x].events = PipelineEvents(x)
                    /\ DoneCount(req[x].events) = 1
              /\ (\A x \in Reqs \ {r, o} : req[x].lookup = "none") =>
                    /\ FileOf(files, r).present
                    /\ FileOf(files, r).json
                    /\ FileOf(files, r).data \in {StoredText(r), StoredText(o)})
  /\ [][ \A r, o \in Reqs :
           ( /\ r # o
             /\ MissedAndStored(o)
             /\ req[r].pc = "store"
             /\ req[r].lookup = "miss"
             /\ req[r].contract_address = req[o].contract_address
             /\ req'[r].stored = "ok" )
           => FileOf(files', r) = JsonFile(now, StoredText(r))
       ]_vars

\* C35 witness: two requests for the same address missed, ran the pipeline
\* with different advisory texts and stored; the entry holds the result of
\* the one, not of the other.
C35_Witness ==
  \E r, o \in Reqs :
     /\ r # o
     /\ MissedAndStored(r) /\ MissedAndStored(o)
     /\ req[r].contract_address = req[o].contract_address
     /\ FullSuccess(r) /\ FullSuccess(o)
     /\ StoredText(r) # StoredText(o)
     /\ FileOf(files, r).data = StoredText(r)

\* what request r would have done on a cache miss with the outcomes its
\* calls had
MissRun(r) ==
  LET a == after_cache_lookup(
             [NewRequest(req[r].prompt) EXCEPT
                !.contract_address = req[r].contract_address], TRUE, None)
      b == after_scan(a, req[r].scan)
      c == IF b.pc = "llm" THEN after_llm(b, req[r].llm, LlmText(r)) ELSE b
  IN  IF c.pc = "store" THEN after_store(c, TRUE, SetResult(files, TRUE, ""))
      ELSE c

\* C36: when the cache is disabled the storage never changes and no request
\* makes a lookup or a store; a request for an address that has returned,
\* a repeated one included, has emitted the events and made the calls of a
\* request that missed and met the same outcomes: one scanning call, and
\* one model call when the scan gave a report.
C36_CacheDisabled ==
  /\ [][ ~cache_enabled => files' = files ]_vars
  /\ [](~cache_enabled =>
          \A r \in Reqs :
             /\ req[r].lookup \in {"none", "disabled"}
             /\ req[r].stored \in {"none", "disabled"}
             /\ req[r].cache_sets = 0
             /\ (req[r].pc = "returned" /\ req[r].contract_address.some) =>
                   /\ req[r].lookup = "disabled"
                   /\ req[r].events = MissRun(r).events
                   /\ req[r].scan_calls = 1
                   /\ req[r].llm_calls = MissRun(r).llm_calls
                   /\ req[r].scan = "200_json" =>
                         /\ req[r].llm_calls = 1
                         /\ req[r].events = PipelineEvents(r))

\* C36 witness: with the cache disabled two requests for the same address
\* have each run the whole pipeline, and there is still no entry.
C36_Witness ==
  /\ ~cache_enabled
  /\ \E r, o \in Reqs :
        /\ r # o
        /\ req[r].contract_address = req[o].contract_address
        /\ FullSuccess(r) /\ FullSuccess(o)
        /\ req[r].events = PipelineEvents(r)
        /\ req[o].events = PipelineEvents(o)
        /\ ~FileOf(files, r).present

(***************************************************************************)
(* Properties of the scanning gateway (specification SpecGateway)          *)
(***************************************************************************)
\* the statuses that are no success (not 2xx)
NonSuccess == { ToString(status) : status \in OtherStatuses \ (200..299) }

\* C17 as stated: analyze_token always returns a value and never raises; a
\* timed-out call yields an error result classified as a timeout, a
\* connection failure one classified as a connection error.
C17_AlwaysClassified ==
  g_pc = "done" =>
     /\ g_result.raised = ""
     /\ g_outcome = "timeout" => g_result.value.error = "Timeout"
     /\ g_outcome = "conn_error" => g_result.value.error = "Connection error"

\* C18 as stated: 200 with a parsable body gives the body, 200 with an
\* unparsable body a parse failure, 404 not-found, 429 rate-limited, 401 and
\* 403 an authentication failure (a classification of their own), and every
\* other non-success status the upstream error.
C18_StatusMapping ==
  g_pc = "done" =>
     /\ g_outcome = "200_json" => g_result.value = ScanDict("", "", "report")
     /\ g_outcome = "200_list" => g_result.value = ScanList("report")
     /\ g_outcome = "200_garbage" => g_result.value.error = "Parse error"
     /\ g_outcome = "404" => g_result.value.error = "Token not found"
     /\ g_outcome = "429" => g_result.value.error = "Rate limit"
     /\ g_outcome \in NonSuccess \ {"404", "429", "401", "403"}
           => g_result.value.error = "API error"
     /\ g_outcome \in {"401", "403"}
           => g_result.value.error \notin
                 {"", "API error", "Token not found", "Rate limit",
                  "Parse error", "Connection error", "Timeout"}

(***************************************************************************)
(* Properties of one request (specification SpecOne)                       *)
(***************************************************************************)
\* an exception was raised inside request r: at the extraction (the prompt
\* is no string), at the cache lookup (the cached value is no dict), in the
\* gateway call (it timed out) or at the handling of the report (the body
\* is no dict)
StepRaised(r) ==
  \/ req[r].prompt = NonePrompt /\ req[r].pc # "start"
  \/ req[r].lookup = "not a dict"
  \/ req[r].scan \in {"timeout", "200_list"}

\* C20: when a step of the pipeline raises, the exception is caught inside
\* the orchestrator: the call of assist returns, and the request has emitted
\* one error block, carrying the exception, followed by the completion
\* signal as its last two events.
C20_ExceptionsCaught ==
  \A r \in Reqs :
     StepRaised(r) =>
        LET ev == req[r].events
        IN  /\ req[r].pc = "returned"
            /\ req[r].caught # ""
            /\ Len(ev) >= 2
            /\ ev[Len(ev) - 1] = Event("ERROR", FALSE, req[r].caught)
            /\ ev[Len(ev)] = DoneEvent
            /\ Cardinality({ i \in 1..Len(ev) : ev[i].type = "ERROR" }) = 1
            /\ DoneCount(ev) = 1

\* C20 witness: the scanning service answered 200 with a body that is no
\* dict; the request returned after the status, one error block and the
\* completion signal.
C20_Witness ==
  \E r \in Reqs :
     /\ req[r].scan = "200_list"
     /\ req[r].pc = "returned"
     /\ req[r].events =
          << StatusAnalyzing, Event("ERROR", FALSE, "AttributeError"),
             DoneEvent >>

\* what the state shows of the path request r took
OnAnalysisPath(r) ==
  \/ req[r].lookup # "none"
  \/ req[r].scan_calls > 0
  \/ \E i \in 1..Len(req[r].events) :
        req[r].events[i].type \in {"STATUS", "AI_ANALYSIS"}

OnGreetingPath(r) ==
  \E i \in 1..Len(req[r].events) : req[r].events[i].type = "GREETING"

OnChatPath(r) ==
  \/ req[r].pc = "chat"
  \/ \E i \in 1..Len(req[r].events) : req[r].events[i].type = "CHAT_RESPONSE"

\* a whitespace-delimited word of the text has 32 or more characters
LongWord(t) ==
  \E i \in 1..Len(t), j \in 1..Len(t) :
     /\ j - i + 1 >= 32
     /\ \A k \in i..j : t[k] \notin Whitespace

\* the lower-cased text contains one of the greeting phrases
GreetingPhrase(t) ==
  \E k \in 1..Len(GREETING_PATTERNS) : IsSubstring(GREETING_PATTERNS[k], lower(t))

\* C21: a request whose text holds an address extract finds takes the
\* analysis path, greeting phrase or not; otherwise it takes the greeting
\* path exactly when no word has 32 or more characters and the lower-cased
\* text contains a greeting phrase; otherwise the chat path.  Exactly one
\* of the three paths is taken.
C21_Routing ==
  \A r \in Reqs :
     (req[r].pc \notin {"start", "idle"} /\ req[r].prompt # NonePrompt) =>
        LET t == req[r].prompt
        IN  /\ OnAnalysisPath(r) <=> extract_contract_address(t).some
            /\ OnGreetingPath(r) <=>
                 ( /\ ~extract_contract_address(t).some
                   /\ ~LongWord(t)
                   /\ GreetingPhrase(t) )
            /\ OnChatPath(r) <=>
                 ( /\ ~extract_contract_address(t).some
                   /\ (LongWord(t) \/ ~GreetingPhrase(t)) )
            /\ Cardinality({ b \in { <<1, OnAnalysisPath(r)>>,
                                     <<2, OnGreetingPath(r)>>,
                                     <<3, OnChatPath(r)>> } : b[2] }) = 1

\* C21 witness: a text with a greeting phrase and an address went down the
\* analysis path.
C21_Witness ==
  \E r \in Reqs :
     /\ GreetingPhrase(req[r].prompt)
     /\ extract_contract_address(req[r].prompt).some
     /\ OnAnalysisPath(r)
     /\ req[r].pc = "returned"

(***************************************************************************)
(* Properties of the consumers (specification SpecStream)                  *)
(***************************************************************************)
\* a is the beginning of b
IsPrefix(a, b) == Len(a) <= Len(b) /\ a = SubSeq(b, 1, Len(a))

\* C24: what the consumer of a request has forwarded is the beginning of
\* what the orchestrator of the request has emitted, event by event and in
\* the same order; the consumer forwards one event at a time, the oldest
\* not yet forwarded; it has left its loop exactly when the last event it
\* forwarded is the completion event, no earlier event it forwarded is one,
\* and from then on it forwards nothing and takes nothing from the queue.
C24_ForwardInOrder ==
  /\ [](\A r \in Reqs :
           /\ IsPrefix(sent[r], req[r].events)
           /\ \A i \in 1..(Len(sent[r]) - 1) : sent[r][i] # DoneEvent
           /\ s_pc[r] = "stopped" <=>
                 (sent[r] # << >> /\ sent[r][Len(sent[r])] = DoneEvent))
  /\ [][ \A r \in Reqs :
           /\ sent'[r] # sent[r] =>
                 /\ s_pc[r] = "reading"
                 /\ sent'[r] = Append(sent[r], req[r].events[Len(sent[r]) + 1])
           /\ s_pc[r] = "stopped" =>
                 /\ sent'[r] = sent[r]
                 /\ s_pc'[r] = "stopped"
                 /\ IsPrefix(queue[r], queue'[r])
       ]_vars

\* C24 witness: the consumer of a request that ran the whole pipeline has
\* forwarded its four events and left its loop, while two events or more
\* wait in the queue of a request.
C24_Witness ==
  \E r \in Reqs :
     /\ s_pc[r] = "stopped"
     /\ sent[r] = PipelineEvents(r)
     /\ \E o \in Reqs : Len(queue[o]) >= 2

\* C25: under every interleaving, the events forwarded for a request
\* followed by those waiting in its queue are the events its own
\* orchestrator emitted, all of them, in their order and nothing else; and
\* a step of a request or of its consumer leaves the other requests, their
\* queues and what was forwarded for them as they were.
C25_OwnStreamOnly ==
  /\ [](\A r \in Reqs : sent[r] \o queue[r] = req[r].events)
  /\ [][ \A r \in Reqs :
           (req'[r] # req[r] \/ sent'[r] # sent[r]) =>
              \A o \in Reqs \ {r} :
                 /\ req'[o] = req[o]
                 /\ queue'[o] = queue[o]
                 /\ sent'[o] = sent[o]
                 /\ s_pc'[o] = s_pc[o]
       ]_vars

\* C25 witness: two requests are under way at once, neither has completed,
\* events of both have been forwarded and their streams differ.
C25_Witness ==
  \E r, o \in Reqs :
     /\ r # o
     /\ req[r].pc \notin {"start", "returned"}
     /\ req[o].pc \notin {"start", "returned"}
     /\ sent[r] # << >> /\ sent[o] # << >>
     /\ req[r].events # req[o].events

\* C31: eventually every request has emitted its completion signal, and
\* its consumer has forwarded every event of the request, the completion
\* event last, and has left its loop (none of this is undone once it
\* holds, so each request gets there and no consumer waits forever).
C31_EveryStreamEnds ==
  <>(\A r \in Reqs :
        /\ req[r].pc = "returned"
        /\ req[r].events # << >>
        /\ req[r].events[Len(req[r].events)] = DoneEvent
        /\ sent[r] = req[r].events
        /\ queue[r] = << >>
        /\ s_pc[r] = "stopped")

\* C31 witness: every consumer has left its loop; one of the requests ran
\* the whole pipeline and the scanning call of another raised.
C31_Witness ==
  /\ \A r \in Reqs : s_pc[r] = "stopped" /\ sent[r] = req[r].events
  /\ \E r, o \in Reqs :
        /\ FullSuccess(r)
        /\ req[o].caught # ""

====
